---- MODULE Spec2Model ----
(***************************************************************************)
(* QRDQNAgent (src/src/agents/qr_dqn_agent.py): the quantile-regression    *)
(* DQN agent with a prioritized replay buffer, as a state machine.         *)
(*                                                                         *)
(* Numbers.  The code computes in float32; the model computes the same     *)
(* expressions exactly, on integers with a fixed scale per quantity:       *)
(*   network outputs, rewards          integers                            *)
(*   targets, pairwise_delta           x GammaDen                          *)
(*   tau_hat, quantile_weights         x 2 * NumQuantiles                  *)
(*   huber_loss                        x 2 * GammaDen^2                    *)
(*   td_errors, priorities             x GammaDen * NumQuantiles           *)
(*   epsilon, the exploration draw     x 1 / EpsUnit                       *)
(*   beta, beta_increment              x 1 / BetaUnit                      *)
(*   torch.quantile(q)                 x QScale                            *)
(*   mean over n values                x n  (the sum)                      *)
(***************************************************************************)
EXTENDS Integers, Sequences, FiniteSets

(***************************************************************************)
(* Sizes of the instance                                                   *)
(***************************************************************************)
\* env.action_space.n
NumActions == 2
\* num_quantiles
NumQuantiles == 2
\* batch_size
BatchSize == 2
\* number of trainable parameters of the approximator
NumParams == 2
\* optimizer steps explored
MaxTrainSteps == 2
\* 1.0 of epsilon, in units
EpsUnit == 2
\* 1.0 of beta, in units
BetaUnit == 4
\* longest quantile vector handed to the reductions of choose_action
MaxVecLen == 11

\* gamma = GammaNum / GammaDen = 0.99
GammaNum == 99
GammaDen == 100
\* huber(x, k=1.0)
HuberK == 1
\* quantile(0.1) and quantile(0.9), as QLow / QScale and QHigh / QScale
QLow == 1
QHigh == 9
QScale == 10

\* buffer_size: the smallest replay buffer a training step can sample from
Capacity == BatchSize

Actions == 0 .. (NumActions - 1)
Quantiles == 1 .. NumQuantiles
Batch == 1 .. BatchSize
Observations == {0, 1}
ParamVals == {0, 1}
QVals == {0, 1}
RiskPreferences == {"neutral", "risk-averse", "risk-seeking", "risk-loving"}

VARIABLES
    online,          \* online_net parameters
    target,          \* target_net parameters
    optSteps,        \* optimizer state: steps taken by Adam
    epsilon,         \* self.epsilon
    beta,            \* self.beta
    beta_increment,  \* self.beta_increment
    buffer,          \* replay_buffer: the stored transitions
    priorities,      \* replay_buffer: the priority of each stored transition
    last,            \* the last call: its name, arguments and what it returned
    qvec,            \* a quantile vector of one action (reductions only)
    reduced          \* the scalar a reduction made of qvec (reductions only)

vars == <<online, target, optSteps, epsilon, beta, beta_increment,
          buffer, priorities, last, qvec, reduced>>

agentVars == <<online, target, optSteps, epsilon, beta, beta_increment,
               buffer, priorities, last>>

(***************************************************************************)
(* Arithmetic helpers                                                      *)
(***************************************************************************)
Abs(x) == IF x < 0 THEN -x ELSE x

Min(a, b) == IF a < b THEN a ELSE b

RECURSIVE SumSeq(_)
SumSeq(s) == IF Len(s) = 0 THEN 0 ELSE Head(s) + SumSeq(Tail(s))

\* tensor.mean(dim) over a vector, times its length
MeanTimesLen(v) == SumSeq(v)

RECURSIVE Insert(_, _)
Insert(x, s) ==
    IF Len(s) = 0 THEN <<x>>
    ELSE IF x <= Head(s) THEN <<x>> \o s
    ELSE <<Head(s)>> \o Insert(x, Tail(s))

RECURSIVE SortAscending(_)
SortAscending(s) == IF Len(s) = 0 THEN <<>> ELSE Insert(Head(s), SortAscending(Tail(s)))

\* (mutant) the interpolation without the sort
TorchQuantileUnsorted(v, qnum) ==
    LET n == Len(v)
        rank == qnum * (n - 1)
        below == rank \div QScale
        frac == rank % QScale
        lo == v[below + 1]
        hi == v[Min(below + 2, n)]
    IN  QScale * lo + frac * (hi - lo)

\* tensor.quantile(q) with q = qnum / QScale, times QScale: the input is
\* sorted, the rank q * (n - 1) is split into its floor and its fraction, and
\* the two neighbours are interpolated linearly.
TorchQuantile(v, qnum) ==
    LET sorted == SortAscending(v)
        n == Len(v)
        rank == qnum * (n - 1)
        below == rank \div QScale
        frac == rank % QScale
        lo == sorted[below + 1]
        hi == sorted[Min(below + 2, n)]
    IN  QScale * lo + frac * (hi - lo)

\* tensor.argmax over a function on 0 .. n-1: a scan that keeps the first maximum
RECURSIVE ArgMaxFrom(_, _, _, _)
ArgMaxFrom(f, a, n, best) ==
    IF a >= n THEN best
    ELSE ArgMaxFrom(f, a + 1, n, IF f[a] > f[best] THEN a ELSE best)

ArgMax(f) == ArgMaxFrom(f, 1, NumActions, 0)

(***************************************************************************)
(* The approximator (QRCNN): an opaque map from parameters and an          *)
(* observation to NumActions x NumQuantiles values.                        *)
(***************************************************************************)
Params == [1 .. NumParams -> ParamVals]

ParamIndex(s, a, i) == ((s + a * i) % NumParams) + 1

Forward(theta, s) == [a \in Actions |-> [i \in Quantiles |-> theta[ParamIndex(s, a, i)]]]

(***************************************************************************)
(* The replay buffer (PrioritizedReplayBuffer): add, sample,               *)
(* update_priorities, len.                                                 *)
(***************************************************************************)
\* The environment (external): env.step(action) in observation s gives the next
\* observation, the reward and the episode-end flag.
EnvStep(s, a) ==
    [next_state |-> (s + a + 1) % 2, reward |-> (s + a) % 2, done |-> (a >= 1)]

\* the transitions the training loop stores
Transitions ==
    { [state |-> s, action |-> a, reward |-> EnvStep(s, a).reward,
       next_state |-> EnvStep(s, a).next_state, done |-> EnvStep(s, a).done] :
      s \in Observations, a \in Actions }

\* the priority a transition is stored with: 1.0
InitialPriority == GammaDen * NumQuantiles

\* sample(batch_size, beta): batch_size indices of stored transitions, any of
\* them (each has a positive probability), drawn with replacement
SampleIndices == [Batch -> 1 .. Len(buffer)]

\* update_priorities(indices, td_errors): one write per batch element, in order
RECURSIVE WritePriorities(_, _, _, _)
WritePriorities(prios, indices, errors, b) ==
    IF b > BatchSize THEN prios
    ELSE WritePriorities([prios EXCEPT ![indices[b]] = errors[b]], indices, errors, b + 1)

UpdatePriorities(prios, indices, errors) == WritePriorities(prios, indices, errors, 1)

(***************************************************************************)
(* __init__                                                                *)
(***************************************************************************)
\* the constructor arguments epsilon_start, beta_start, beta_increment
Configs ==
    { [epsilon_start |-> 0, beta_start |-> BetaUnit - 2, beta_increment |-> 1],
      [epsilon_start |-> 1, beta_start |-> BetaUnit - 1, beta_increment |-> 2],
      [epsilon_start |-> EpsUnit, beta_start |-> 0, beta_increment |-> 0] }

\* tau_hat = linspace(0, 1, num_quantiles + 1)[:-1] + 0.5 / num_quantiles
TauHat == [i \in Quantiles |-> 2 * (i - 1) + 1]

\* no reduction of qvec made yet
NotReduced == [neutral |-> <<>>, averse |-> <<>>, seeking |-> <<>>]

Init ==
    /\ online \in Params
    /\ target = online
    /\ optSteps = 0
    /\ \E c \in Configs :
          /\ epsilon = c.epsilon_start
          /\ beta = c.beta_start
          /\ beta_increment = c.beta_increment
    /\ buffer = <<>>
    /\ priorities = <<>>
    /\ last = [op |-> "__init__"]
    /\ qvec = <<>>
    /\ reduced = NotReduced

(***************************************************************************)
(* replay_buffer.add, called by the training loop                          *)
(***************************************************************************)
Add(t) ==
    /\ Len(buffer) < Capacity
    /\ buffer' = Append(buffer, t)
    /\ priorities' = Append(priorities, InitialPriority)
    /\ last' = [op |-> "add"]
    /\ UNCHANGED <<online, target, optSteps, epsilon, beta, beta_increment, qvec, reduced>>

(***************************************************************************)
(* choose_action                                                           *)
(***************************************************************************)
\* The scalar that stands for one action's quantile vector v:
\* quantiles.mean(dim=2), times Len(v)
ReduceNeutral(v) == MeanTimesLen(v)

\* quantiles.quantile(0.1, dim=2), times QScale
ReduceRiskAverse(v) == TorchQuantile(v, QLow)

\* quantiles.quantile(0.9, dim=2), times QScale
ReduceRiskSeeking(v) == TorchQuantile(v, QHigh)

NeutralValues(quantiles) == [a \in Actions |-> ReduceNeutral(quantiles[a])]

RiskAverseValues(quantiles) == [a \in Actions |-> ReduceRiskAverse(quantiles[a])]

RiskSeekingValues(quantiles) == [a \in Actions |-> ReduceRiskSeeking(quantiles[a])]

\* what choose_action returns or raises, given the draw of random.random()
\* (u, in units of 1 / EpsUnit) and the action env.action_space.sample() would give
ChooseActionResult(state, risk_preference, u, sampled) ==
    IF u < epsilon
    THEN [outcome |-> "return", action |-> sampled]
    ELSE LET quantiles == Forward(online, state)
         IN  IF risk_preference = "neutral"
             THEN [outcome |-> "return", action |-> ArgMax(NeutralValues(quantiles))]
             ELSE IF risk_preference = "risk-averse"
             THEN [outcome |-> "return", action |-> ArgMax(RiskAverseValues(quantiles))]
             ELSE IF risk_preference = "risk-seeking"
             THEN [outcome |-> "return", action |-> ArgMax(RiskSeekingValues(quantiles))]
             ELSE [outcome |-> "ValueError", action |-> -1]

ChooseAction(state, risk_preference, u, sampled) ==
    /\ last' = [op |-> "choose_action",
                result |-> ChooseActionResult(state, risk_preference, u, sampled)]
    /\ UNCHANGED <<online, target, optSteps, epsilon, beta, beta_increment,
                   buffer, priorities, qvec, reduced>>

(***************************************************************************)
(* update_target_network                                                   *)
(***************************************************************************)
\* (mutant) a copy that stops after the first parameter
LoadStateDictFirstOnly(dst, src) == [p \in DOMAIN dst |-> IF p = 1 THEN src[p] ELSE dst[p]]

\* (mutant) the copy made in the wrong direction
UpdateTargetNetworkReversed ==
    /\ online' = target
    /\ last' = [op |-> "update_target_network", replaced |-> target]
    /\ UNCHANGED <<target, optSteps, epsilon, beta, beta_increment,
                   buffer, priorities, qvec, reduced>>

\* target_net.load_state_dict(online_net.state_dict())
LoadStateDict(dst, src) == src

UpdateTargetNetwork ==
    /\ target' = LoadStateDict(target, online)
    /\ last' = [op |-> "update_target_network", replaced |-> target]
    /\ UNCHANGED <<online, optSteps, epsilon, beta, beta_increment,
                   buffer, priorities, qvec, reduced>>

(***************************************************************************)
(* train_step: the tensors it computes, in the order of the code.  A       *)
(* tensor of shape (batch_size, m, n) is a function [Batch -> [1..m ->     *)
(* [1..n -> value]]]; dim 1 is the first index after the batch index.      *)
(***************************************************************************)
\* 1) quantiles_pred.gather(dim=1, index=actions).squeeze(1)
QuantilesPredChosen(theta, states, actions) ==
    LET quantiles_pred == [b \in Batch |-> Forward(theta, states[b])]
    IN  [b \in Batch |-> quantiles_pred[b][actions[b]]]

\* (mutant) the next action chosen by the target network
BestActionsByTarget(onlineTheta, targetTheta, next_states) ==
    LET next_quantiles == [b \in Batch |-> Forward(targetTheta, next_states[b])]
        next_q_mean ==
            [b \in Batch |-> [a \in Actions |-> MeanTimesLen(next_quantiles[b][a])]]
    IN  [b \in Batch |-> ArgMax(next_q_mean[b])]

\* 2a) next_quantiles_online.mean(dim=2).argmax(dim=1)
BestActions(onlineTheta, targetTheta, next_states) ==
    LET next_quantiles_online == [b \in Batch |-> Forward(onlineTheta, next_states[b])]
        next_q_online_mean ==
            [b \in Batch |-> [a \in Actions |-> MeanTimesLen(next_quantiles_online[b][a])]]
    IN  [b \in Batch |-> ArgMax(next_q_online_mean[b])]

\* 2b) next_quantiles_target.gather(dim=1, index=best_actions_expanded)
NextQuantilesTargetChosen(targetTheta, next_states, best_actions) ==
    LET next_quantiles_target == [b \in Batch |-> Forward(targetTheta, next_states[b])]
    IN  [b \in Batch |-> next_quantiles_target[b][best_actions[b]]]

\* (mutant) the backup without the (1 - done) mask
BellmanTargetsIgnoringDone(rewards, dones, next_quantiles_target_chosen) ==
    [b \in Batch |-> [i \in Quantiles |->
        rewards[b] * GammaDen + GammaNum * next_quantiles_target_chosen[b][i]]]

\* 2c) targets = rewards_t + (1.0 - dones_t) * gamma * next_quantiles_target_chosen
BellmanTargets(rewards, dones, next_quantiles_target_chosen) ==
    LET dones_t == [b \in Batch |-> IF dones[b] THEN 1 ELSE 0]
        temp1 == [b \in Batch |-> 1 - dones_t[b]]
        temp2 == [b \in Batch |-> temp1[b] * GammaNum]
        temp3 == [b \in Batch |->
                    [i \in Quantiles |-> temp2[b] * next_quantiles_target_chosen[b][i]]]
    IN  [b \in Batch |-> [i \in Quantiles |-> rewards[b] * GammaDen + temp3[b][i]]]

\* 3) pairwise_delta = targets.unsqueeze(1) - quantiles_pred_chosen.unsqueeze(-1):
\*    dim 1 runs over the predicted quantiles, dim 2 over the target quantiles
PairwiseDelta(targets, quantiles_pred_chosen) ==
    [b \in Batch |-> [d1 \in Quantiles |-> [d2 \in Quantiles |->
        targets[b][d2] - GammaDen * quantiles_pred_chosen[b][d1]]]]

\* huber(x, k): 0.5 * cond * x^2 + (1 - cond) * k * (|x| - 0.5 * k)
Huber(x) ==
    LET k == HuberK * GammaDen
        cond == IF Abs(x) < k THEN 1 ELSE 0
    IN  cond * x * x + (1 - cond) * k * (2 * Abs(x) - k)

\* (mutant) tau = tau_hat.view(1, 1, -1): the midpoint of the target quantile
QuantileWeightsTauOfTarget(pairwise_delta) ==
    [b \in Batch |-> [d1 \in Quantiles |-> [d2 \in Quantiles |->
        Abs(TauHat[d2] - 2 * NumQuantiles * (IF pairwise_delta[b][d1][d2] < 0 THEN 1 ELSE 0))]]]

\* quantile_weights = |tau - indicator|, tau = tau_hat.view(1, -1, 1)
QuantileWeights(pairwise_delta) ==
    LET tau == [d1 \in Quantiles |-> [d2 \in Quantiles |-> TauHat[d1]]]
        indicator == [b \in Batch |-> [d1 \in Quantiles |-> [d2 \in Quantiles |->
                        IF pairwise_delta[b][d1][d2] < 0 THEN 1 ELSE 0]]]
    IN  [b \in Batch |-> [d1 \in Quantiles |-> [d2 \in Quantiles |->
            Abs(tau[d1][d2] - 2 * NumQuantiles * indicator[b][d1][d2])]]]

\* loss = (quantile_weights * huber_loss).mean(dim=2).mean(dim=1),
\* times 4 * GammaDen^2 * NumQuantiles^3
QuantileHuberLoss(pairwise_delta, quantile_weights) ==
    LET huber_loss == [b \in Batch |-> [d1 \in Quantiles |-> [d2 \in Quantiles |->
                         Huber(pairwise_delta[b][d1][d2])]]]
        inner == [b \in Batch |-> [d1 \in Quantiles |->
                    MeanTimesLen([d2 \in Quantiles |->
                        quantile_weights[b][d1][d2] * huber_loss[b][d1][d2]])]]
    IN  [b \in Batch |-> MeanTimesLen(inner[b])]

\* (mutant) the mean of the signed differences
TdErrorsSigned(targets, quantiles_pred_chosen) ==
    [b \in Batch |-> MeanTimesLen([i \in Quantiles |->
        targets[b][i] - GammaDen * quantiles_pred_chosen[b][i]])]

\* td_errors = torch.abs(targets - quantiles_pred_chosen).mean(dim=1)
TdErrors(targets, quantiles_pred_chosen) ==
    [b \in Batch |-> MeanTimesLen([i \in Quantiles |->
        Abs(targets[b][i] - GammaDen * quantiles_pred_chosen[b][i])])]

\* optimizer.zero_grad(); weighted_loss.backward(); optimizer.step(): Adam moves
\* the online parameters, and only them, to some new values
OptimizerStep(theta) == Params

\* (mutant) the increment without the clamp
NextBetaUnclamped(b, increment) == b + increment

\* self.beta = min(1.0, self.beta + self.beta_increment)
NextBeta(b, increment) == Min(BetaUnit, b + increment)

(***************************************************************************)
(* train_step                                                              *)
(***************************************************************************)
\* (mutant) the guard off by one
TrainStepSkipsOffByOne == Len(buffer) < BatchSize - 1

\* if len(self.replay_buffer) < self.batch_size: return
TrainStepSkips == Len(buffer) < BatchSize

TrainStepSkip ==
    /\ TrainStepSkips
    /\ last' = [op |-> "train_step", skipped |-> TRUE, calls |-> <<>>]
    /\ UNCHANGED <<online, target, optSteps, epsilon, beta, beta_increment,
                   buffer, priorities, qvec, reduced>>

TrainStepRun(indices, newOnline) ==
    LET states == [b \in Batch |-> buffer[indices[b]].state]
        actions == [b \in Batch |-> buffer[indices[b]].action]
        rewards == [b \in Batch |-> buffer[indices[b]].reward]
        next_states == [b \in Batch |-> buffer[indices[b]].next_state]
        dones == [b \in Batch |-> buffer[indices[b]].done]
        quantiles_pred_chosen == QuantilesPredChosen(online, states, actions)
        best_actions == BestActions(online, target, next_states)
        next_quantiles_target_chosen ==
            NextQuantilesTargetChosen(target, next_states, best_actions)
        targets == BellmanTargets(rewards, dones, next_quantiles_target_chosen)
        pairwise_delta == PairwiseDelta(targets, quantiles_pred_chosen)
        quantile_weights == QuantileWeights(pairwise_delta)
        loss == QuantileHuberLoss(pairwise_delta, quantile_weights)
        td_errors == TdErrors(targets, quantiles_pred_chosen)
    IN  /\ ~TrainStepSkips
        /\ optSteps < MaxTrainSteps
        /\ beta' = NextBeta(beta, beta_increment)
        /\ online' = newOnline
        /\ optSteps' = optSteps + 1
        /\ priorities' = UpdatePriorities(priorities, indices, td_errors)
        /\ last' = [op |-> "train_step", skipped |-> FALSE,
                    calls |-> <<"sample", "optimizer.step", "update_priorities">>,
                    indices |-> indices,
                    quantiles_pred_chosen |-> quantiles_pred_chosen,
                    best_actions |-> best_actions,
                    targets |-> targets,
                    quantile_weights |-> quantile_weights,
                    loss |-> loss,
                    written |-> [indices |-> indices, errors |-> td_errors]]
        /\ UNCHANGED <<target, epsilon, beta_increment, buffer, qvec, reduced>>

TrainStep ==
    \/ TrainStepSkip
    \/ \E indices \in SampleIndices : \E newOnline \in OptimizerStep(online) :
          TrainStepRun(indices, newOnline)

(***************************************************************************)
(* The agent, driven by any sequence of calls                              *)
(***************************************************************************)
Next ==
    \/ \E t \in Transitions : Add(t)
    \/ \E state \in Observations, risk_preference \in RiskPreferences,
          u \in 0 .. (EpsUnit - 1), sampled \in Actions :
          ChooseAction(state, risk_preference, u, sampled)
    \/ UpdateTargetNetwork
    \/ TrainStep

Spec == Init /\ [][Next]_vars

(***************************************************************************)
(* The three reductions of choose_action, applied to one quantile vector   *)
(* of any length up to MaxVecLen                                           *)
(***************************************************************************)
QuantileVectors == UNION { [1 .. n -> QVals] : n \in 1 .. MaxVecLen }

InitReduce ==
    /\ qvec \in QuantileVectors
    /\ reduced = NotReduced
    /\ online = [p \in 1 .. NumParams |-> 0]
    /\ target = online
    /\ optSteps = 0
    /\ epsilon = 0
    /\ beta = 0
    /\ beta_increment = 0
    /\ buffer = <<>>
    /\ priorities = <<>>
    /\ last = [op |-> "__init__"]

Neutral ==
    /\ reduced' = [reduced EXCEPT !.neutral = <<ReduceNeutral(qvec)>>]
    /\ UNCHANGED <<qvec, agentVars>>

RiskAverse ==
    /\ reduced' = [reduced EXCEPT !.averse = <<ReduceRiskAverse(qvec)>>]
    /\ UNCHANGED <<qvec, agentVars>>

RiskSeeking ==
    /\ reduced' = [reduced EXCEPT !.seeking = <<ReduceRiskSeeking(qvec)>>]
    /\ UNCHANGED <<qvec, agentVars>>

NextReduce == Neutral \/ RiskAverse \/ RiskSeeking

SpecReduce == InitReduce /\ [][NextReduce]_vars

(***************************************************************************)
(* Properties                                                              *)
(***************************************************************************)
\* the call recorded in l is a train_step that was not skipped
Trained(l) == l.op = "train_step" /\ ~l.skipped

\* the transition sampled as batch element b by the train_step recorded in l
Sampled(l, b) == buffer[l.indices[b]]

\* the lowest action index that maximises the mean of quantiles[a]
LowestBestAction(quantiles) ==
    CHOOSE a \in Actions :
        /\ \A c \in Actions : SumSeq(quantiles[c]) <= SumSeq(quantiles[a])
        /\ \A c \in Actions : c < a => SumSeq(quantiles[c]) < SumSeq(quantiles[a])

\* C1: a train_step called with fewer than batch_size stored transitions is a
\* no-op: it returns without sampling, without an optimizer step and without a
\* priority write, and leaves the replay store, both parameter sets, the
\* optimizer state, beta and epsilon as they were.
C1_SkippedTrainStepIsNoOp ==
    [][(last'.op = "train_step" /\ Len(buffer) < BatchSize)
         => /\ last'.skipped
            /\ last'.calls = <<>>
            /\ UNCHANGED <<buffer, priorities, online, target, optSteps, beta, epsilon>>]_vars

C1_Witness ==
    /\ last.op = "train_step"
    /\ last.skipped
    /\ Len(buffer) = BatchSize - 1

\* C2: choose_action with a risk_preference other than the three known ones
\* fails with ValueError, whatever the state, epsilon and the exploration draw.
C2_UnknownRiskPreferenceFails ==
    \A state \in Observations, u \in 0 .. (EpsUnit - 1), sampled \in Actions :
        ChooseActionResult(state, "risk-loving", u, sampled).outcome = "ValueError"

\* C3: right after construction and right after update_target_network every
\* target parameter equals the online parameter, so both approximators give the
\* same output on every input; update_target_network copies the online
\* parameters as they were at the call and leaves them unchanged.
C3_TargetEqualsOnlineAfterSync ==
    /\ [](last.op \in {"__init__", "update_target_network"}
            => /\ target = online
               /\ \A s \in Observations : Forward(target, s) = Forward(online, s))
    /\ [][last'.op = "update_target_network"
            => (target' = online /\ online' = online)]_vars

C3_Witness ==
    /\ last.op = "update_target_network"
    /\ last.replaced # target
    /\ \E s \in Observations : Forward(last.replaced, s) # Forward(online, s)

\* C4: for every sampled transition with done = true the target of every
\* quantile is the reward, whatever the approximators give on its next_state.
C4_TerminalTargetIsReward ==
    Trained(last) =>
        \A b \in Batch : Sampled(last, b).done =>
            \A i \in Quantiles : last.targets[b][i] = GammaDen * Sampled(last, b).reward

C4_Witness ==
    /\ Trained(last)
    /\ \E b \in Batch :
          /\ Sampled(last, b).done
          /\ Sampled(last, b).reward > 0
          /\ \E i \in Quantiles :
                Forward(target, Sampled(last, b).next_state)[last.best_actions[b]][i] # 0

\* C5: target[b,i] = reward[b] + (1 - done[b]) * gamma * T[b, a*(b), i], with T
\* the target network's output on next_state[b] and a*(b) the lowest action
\* index that maximises the mean of the online network's output on
\* next_state[b]; the result has shape (batch_size, num_quantiles).
C5_DoubleQTargets ==
    [][Trained(last')
         => /\ DOMAIN last'.targets = Batch
            /\ \A b \in Batch :
                  LET t == buffer[last'.indices[b]]
                      astar == LowestBestAction(Forward(online, t.next_state))
                      T == Forward(target, t.next_state)
                  IN  /\ last'.best_actions[b] = astar
                      /\ DOMAIN last'.targets[b] = Quantiles
                      /\ \A i \in Quantiles :
                            last'.targets[b][i] =
                                GammaDen * t.reward
                                + (IF t.done THEN 0 ELSE GammaNum * T[astar][i])]_vars

C5_Witness ==
    /\ Trained(last)
    /\ \E b \in Batch :
          LET T == Forward(target, Sampled(last, b).next_state)
          IN  /\ ~Sampled(last, b).done
              /\ LowestBestAction(T) # last.best_actions[b]
              /\ T[LowestBestAction(T)] # T[last.best_actions[b]]

\* C6 (as stated): for any quantile vector the risk-averse scalar is at most
\* the neutral scalar, which is at most the risk-seeking scalar.
C6_ReductionsOrdered ==
    (Len(reduced.averse) = 1 /\ Len(reduced.neutral) = 1 /\ Len(reduced.seeking) = 1)
        => /\ reduced.averse[1] * Len(qvec) <= QScale * reduced.neutral[1]
           /\ QScale * reduced.neutral[1] <= reduced.seeking[1] * Len(qvec)

\* C6 (amended): for any quantile vector the risk-averse scalar is at most the
\* risk-seeking scalar; the neutral scalar lies between them when the vector
\* has at most QScale / QLow = 10 values.
C6_ReductionsOrderedUpToTen ==
    (Len(reduced.averse) = 1 /\ Len(reduced.neutral) = 1 /\ Len(reduced.seeking) = 1)
        => /\ reduced.averse[1] <= reduced.seeking[1]
           /\ Len(qvec) * QLow <= QScale
                => /\ reduced.averse[1] * Len(qvec) <= QScale * reduced.neutral[1]
                   /\ QScale * reduced.neutral[1] <= reduced.seeking[1] * Len(qvec)

C6_Witness ==
    /\ Len(reduced.averse) = 1 /\ Len(reduced.neutral) = 1 /\ Len(reduced.seeking) = 1
    /\ Len(qvec) * QLow = QScale
    /\ reduced.averse[1] * Len(qvec) < QScale * reduced.neutral[1]
    /\ QScale * reduced.neutral[1] < reduced.seeking[1] * Len(qvec)
    /\ \E i \in 1 .. (Len(qvec) - 1) : qvec[i] > qvec[i + 1]

\* C7: a train_step that is not skipped sets beta to min(1.0, beta +
\* beta_increment); no other call changes beta; beta never decreases, never
\* exceeds 1.0 and stays at 1.0 once there.
C7_BetaSchedule ==
    /\ [](beta <= BetaUnit)
    /\ [][/\ Trained(last') => beta' = Min(BetaUnit, beta + beta_increment)
          /\ ~Trained(last') => beta' = beta
          /\ beta' >= beta
          /\ beta = BetaUnit => beta' = BetaUnit]_vars

C7_Witness ==
    /\ Trained(last)
    /\ optSteps = 2
    /\ beta_increment > 1
    /\ beta = BetaUnit

\* C8 (as stated): the weight of Huber(target[b,i] - predicted[b,j]) is
\* |tau_hat[i] - 1{delta < 0}|, tau_hat taken at the target quantile index i.
C8_WeightUsesTargetIndex ==
    Trained(last) =>
        \A b \in Batch : \A i \in Quantiles : \A j \in Quantiles :
            LET delta == last.targets[b][i] - GammaDen * last.quantiles_pred_chosen[b][j]
            IN  last.quantile_weights[b][j][i]
                    = Abs(TauHat[i] - 2 * NumQuantiles * (IF delta < 0 THEN 1 ELSE 0))

\* C8 (amended): the weight of Huber(target[b,i] - predicted[b,j]) is
\* |tau_hat[j] - 1{delta < 0}|, tau_hat taken at the predicted quantile index j.
C8_WeightUsesPredictedIndex ==
    Trained(last) =>
        \A b \in Batch : \A i \in Quantiles : \A j \in Quantiles :
            LET delta == last.targets[b][i] - GammaDen * last.quantiles_pred_chosen[b][j]
            IN  last.quantile_weights[b][j][i]
                    = Abs(TauHat[j] - 2 * NumQuantiles * (IF delta < 0 THEN 1 ELSE 0))

C8_Witness ==
    /\ Trained(last)
    /\ \E b \in Batch : \E i \in Quantiles : \E j \in Quantiles :
          /\ i # j
          /\ last.targets[b][i] - GammaDen * last.quantiles_pred_chosen[b][j] < 0
    /\ \E b \in Batch : \E i \in Quantiles : \E j \in Quantiles :
          /\ i # j
          /\ last.targets[b][i] - GammaDen * last.quantiles_pred_chosen[b][j] > 0

\* C9: the target parameters change only in update_target_network and the
\* online parameters only in a train_step that is not skipped; choose_action
\* changes neither, and a train_step leaves the target parameters alone.
C9_IndependentParameterSets ==
    [][/\ target' # target => last'.op = "update_target_network"
       /\ online' # online => Trained(last')
       /\ last'.op = "choose_action" => (online' = online /\ target' = target)
       /\ last'.op = "train_step" => target' = target]_vars

C9_Witness ==
    /\ Trained(last)
    /\ optSteps = 1
    /\ online # target
    /\ \E s \in Observations : Forward(online, s) # Forward(target, s)

\* C10: a train_step that is not skipped samples, steps the optimizer and then
\* calls update_priorities once, for the sampled indices; the value written for
\* batch element b is the mean over i of |target[b,i] - predicted[b,i]|, with
\* predicted computed from the online parameters as they were before the
\* optimizer step; it is not negative.
C10_PriorityWrite ==
    [][Trained(last')
         => /\ last'.calls = <<"sample", "optimizer.step", "update_priorities">>
            /\ last'.written.indices = last'.indices
            /\ \A b \in Batch :
                  LET t == buffer[last'.indices[b]]
                      predicted == Forward(online, t.state)[t.action]
                      error == SumSeq([i \in Quantiles |->
                                  Abs(last'.targets[b][i] - GammaDen * predicted[i])])
                  IN  /\ last'.written.errors[b] = error
                      /\ last'.written.errors[b] >= 0
                      /\ (\A c \in Batch : c > b => last'.indices[c] # last'.indices[b])
                            => priorities'[last'.indices[b]] = error
            /\ \A k \in 1 .. Len(buffer) :
                  (\A b \in Batch : last'.indices[b] # k) => priorities'[k] = priorities[k]]_vars

C10_Witness ==
    /\ Trained(last)
    /\ \E b \in Batch :
          /\ last.written.errors[b] > 0
          /\ Forward(online, Sampled(last, b).state)[Sampled(last, b).action]
                # last.quantiles_pred_chosen[b]
          /\ priorities[last.indices[b]] = last.written.errors[b]
    /\ \E k \in 1 .. Len(buffer) : \A b \in Batch : last.indices[b] # k

====
